---- MODULE Spec2Model ----
(***************************************************************************)
(* A model of the JSON Selection literal-expression parser                 *)
(* (apollo-federation, sources/connect/json_selection/lit_expr.rs) and of  *)
(* the custom telemetry events of the router (apollo-router,               *)
(* plugins/telemetry/config_new/events.rs).                                *)
(*                                                                         *)
(* Source text is a sequence of one-character strings.  A position is a    *)
(* 1-based index into that sequence, so the byte offset of position i is   *)
(* i - 1.  Every parser takes the text and a position and gives a result   *)
(* [st, pos, node]: st is "Ok", "Error" (nom::Err::Error, recoverable) or  *)
(* "Failure" (nom::Err::Failure, fatal); pos is the position of the        *)
(* unconsumed remainder; node is the located value that was produced.      *)
(***************************************************************************)
EXTENDS Integers, Sequences, FiniteSets, TLC

VARIABLES
    input,    \* the source text handed to the parser
    written,  \* the elements or properties the text was written from, if any
    pc,       \* "start", then what was done last: "number", "parsed",
              \* "spaced", "comma", "extracted", "merged"; "event" for telemetry
    result,   \* the result of the last parse of input
    orig,     \* the result of the first parse, before any edit of the text
    edits,    \* the number of edits made to the text
    paths,    \* the result of the last free-variable extraction
    inner,    \* the CustomEventInner of a custom telemetry event
    log,      \* the events logged, in order
    calls     \* the callbacks that ran on the custom event, in order

vars == <<input, written, pc, result, orig, edits, paths, inner, log, calls>>

-----------------------------------------------------------------------------
(* Characters *)

Whitespace == {" ", "\n", "\t", "\r"}

DigitChars == {"0", "1", "2", "3", "4", "5", "6", "7", "8", "9"}

IdentStart ==
    {"a", "b", "c", "d", "e", "f", "g", "h", "i", "j", "k", "l", "m",
     "n", "o", "p", "q", "r", "s", "t", "u", "v", "w", "x", "y", "z",
     "A", "B", "C", "D", "E", "F", "G", "H", "I", "J", "K", "L", "M",
     "N", "O", "P", "Q", "R", "S", "T", "U", "V", "W", "X", "Y", "Z", "_"}

IdentChars == IdentStart \cup DigitChars

-----------------------------------------------------------------------------
(* Located values.  None is the absent location; a present location is the *)
(* pair <<start, end>> of byte offsets.                                    *)

None == <<>>

Some(start, end) == <<start, end>>

\* The location of n characters consumed at position i.
TokenLoc(i, n) == Some(i - 1, i - 1 + n)

Min(a, b) == IF a <= b THEN a ELSE b

Max(a, b) == IF a >= b THEN a ELSE b

\* merge_locs that returns the first range when both are present.
merge_locs_First(a, b) ==
    IF a = None THEN b ELSE a

merge_locs(a, b) ==
    IF a = None THEN b
    ELSE IF b = None THEN a
    ELSE Some(Min(a[1], b[1]), Max(a[2], b[2]))

\* Every AST node has the same fields, so that any two nodes compare.
\*   String : text = the decoded characters
\*   Number : text = the converted number (see NumberFromStr)
\*   Bool   : text = <<"true">> or <<"false">>
\*   Null   :
\*   Object : keys = the keys in map order, kids = the values in map order
\*   Array  : kids = the elements
\*   Path   : keys = the segment chain, ending in the Empty terminator
Parsed(tag, text, keys, kids, loc) ==
    [tag |-> tag, text |-> text, keys |-> keys, kids |-> kids, loc |-> loc]

NoNode == Parsed("None", <<>>, <<>>, <<>>, None)

\* A key, a variable segment or the Empty terminator of a path.
Segment(form, name, loc) == [form |-> form, name |-> name, loc |-> loc]

Ok(pos, node) == [st |-> "Ok", pos |-> pos, node |-> node]

Error(pos) == [st |-> "Error", pos |-> pos, node |-> NoNode]

Failure(pos) == [st |-> "Failure", pos |-> pos, node |-> NoNode]

-----------------------------------------------------------------------------
(* Lexical helpers *)

\* The position after a comment body: a comment runs to the end of its line.
RECURSIVE SkipComment(_, _)
SkipComment(s, i) ==
    IF i > Len(s) THEN i
    ELSE IF s[i] = "\n" THEN i + 1
    ELSE SkipComment(s, i + 1)

\* The position after any run of whitespace and comments.  Never fails.
RECURSIVE spaces_or_comments(_, _)
spaces_or_comments(s, i) ==
    IF i > Len(s) THEN i
    ELSE IF s[i] \in Whitespace THEN spaces_or_comments(s, i + 1)
    ELSE IF s[i] = "#" THEN spaces_or_comments(s, SkipComment(s, i + 1))
    ELSE i

\* Whether the characters of tok stand at position i of s.
StartsWith(s, i, tok) ==
    /\ i + Len(tok) - 1 <= Len(s)
    /\ \A k \in 1..Len(tok) : s[i + k - 1] = tok[k]

\* parsed_span(tok): the exact characters of tok, located; no whitespace is
\* skipped and nothing is required of the character that follows.
parsed_span(tok, s, i) ==
    IF StartsWith(s, i, tok)
    THEN Ok(i + Len(tok), Parsed("Span", tok, <<>>, <<>>, TokenLoc(i, Len(tok))))
    ELSE Error(i)

\* char(c): one character, not located.
char(c, s, i) ==
    IF i <= Len(s) /\ s[i] = c THEN Ok(i + 1, NoNode) ELSE Error(i)

\* The position after the longest run of characters of set cs from i.
RECURSIVE RunEnd(_, _, _)
RunEnd(cs, s, i) ==
    IF i <= Len(s) /\ s[i] \in cs THEN RunEnd(cs, s, i + 1) ELSE i

\* recognize(many0(one_of(digits))) and recognize(many1(one_of(digits))):
\* the end of the digit run; many1 needs at least one digit.
many0_digits(s, i) == RunEnd(DigitChars, s, i)

many1_digits_ok(s, i) == RunEnd(DigitChars, s, i) > i

-----------------------------------------------------------------------------
(* The numeric conversion, number.parse() into serde_json::Number *)

\* s without its trailing "0" characters.
RECURSIVE StripTrailingZeros(_)
StripTrailingZeros(s) ==
    IF Len(s) > 0 /\ s[Len(s)] = "0"
    THEN StripTrailingZeros(SubSeq(s, 1, Len(s) - 1))
    ELSE s

\* The index of the first "." of s, or 0.
DotIndex(s) ==
    IF \E k \in 1..Len(s) : s[k] = "."
    THEN CHOOSE k \in 1..Len(s) : s[k] = "." /\ \A j \in 1..(k - 1) : s[j] # "."
    ELSE 0

AllDigits(s) == \A k \in 1..Len(s) : s[k] \in DigitChars

AllZeros(s) == \A k \in 1..Len(s) : s[k] = "0"

\* The JSON number grammar of the conversion: -? (0 | [1-9][0-9]*) (. [0-9]+)?
\* An integer part with a leading zero and further digits is refused.  The
\* value is an integer when no "." is written ("-0" is the float -0.0), a
\* float otherwise; two floats are equal when they are numerically equal, so
\* trailing fraction zeros and the sign of zero do not count.
NumberFromStr(text) ==
    LET neg  == Len(text) > 0 /\ text[1] = "-"
        body == IF neg THEN SubSeq(text, 2, Len(text)) ELSE text
        dot  == DotIndex(body)
        int  == IF dot = 0 THEN body ELSE SubSeq(body, 1, dot - 1)
        frac == IF dot = 0 THEN <<>> ELSE SubSeq(body, dot + 1, Len(body))
        wellFormed ==
            /\ Len(int) > 0
            /\ AllDigits(int)
            /\ ~(Len(int) > 1 /\ int[1] = "0")
            /\ dot # 0 => (Len(frac) > 0 /\ AllDigits(frac))
        zero == AllZeros(int) /\ AllZeros(frac)
        sign == IF neg /\ ~zero THEN "-" ELSE "+"
        isFloat == dot # 0 \/ (neg /\ zero)
    IN  IF ~wellFormed THEN [ok |-> FALSE, val |-> <<>>]
        ELSE IF isFloat
        THEN [ok |-> TRUE,
              val |-> <<"Float", sign>> \o int \o <<".">> \o StripTrailingZeros(frac)]
        ELSE [ok |-> TRUE, val |-> <<"Int", sign>> \o int]

-----------------------------------------------------------------------------
\* LitNumber ::= "-"? ([0-9]+ ("." [0-9]*)? | "." [0-9]+)

\* NumberIntFrac without the implicit "0" after a trailing dot.
NumberIntFrac_NoImplicitZero(s, p) ==
    IF ~many1_digits_ok(s, p) THEN Error(p)
    ELSE
      LET e    == RunEnd(DigitChars, s, p)
          int  == SubSeq(s, p, e - 1)
          q1   == spaces_or_comments(s, e)
          dot  == parsed_span(<<".">>, s, q1)
          q2   == spaces_or_comments(s, dot.pos)
          fe   == many0_digits(s, q2)
          frac == SubSeq(s, q2, fe - 1)
      IN  IF dot.st = "Ok"
          THEN Ok(fe, Parsed("Text", int \o <<".">> \o frac, <<>>, <<>>,
                             merge_locs(TokenLoc(p, e - p), dot.node.loc)))
          ELSE Ok(e, Parsed("Text", int, <<>>, <<>>, TokenLoc(p, e - p)))

\* NumberIntFrac located at its integer digits alone.
NumberIntFrac_IntLocOnly(s, p) ==
    IF ~many1_digits_ok(s, p) THEN Error(p)
    ELSE
      LET e    == RunEnd(DigitChars, s, p)
          int  == SubSeq(s, p, e - 1)
          q1   == spaces_or_comments(s, e)
          dot  == parsed_span(<<".">>, s, q1)
          q2   == spaces_or_comments(s, dot.pos)
          fe   == many0_digits(s, q2)
          frac == SubSeq(s, q2, fe - 1)
      IN  IF dot.st = "Ok"
          THEN Ok(fe, Parsed("Text",
                             int \o <<".">> \o (IF frac = <<>> THEN <<"0">> ELSE frac),
                             <<>>, <<>>, TokenLoc(p, e - p)))
          ELSE Ok(e, Parsed("Text", int, <<>>, <<>>, TokenLoc(p, e - p)))

\* First alternative: digits, then optionally a dot and any digits.
NumberIntFrac(s, p) ==
    IF ~many1_digits_ok(s, p) THEN Error(p)
    ELSE
      LET e       == RunEnd(DigitChars, s, p)
          int     == SubSeq(s, p, e - 1)
          int_loc == TokenLoc(p, e - p)
          q1      == spaces_or_comments(s, e)
          dot     == parsed_span(<<".">>, s, q1)
          q2      == spaces_or_comments(s, dot.pos)
          fe      == many0_digits(s, q2)
          frac    == SubSeq(s, q2, fe - 1)
          frac_loc == merge_locs(dot.node.loc,
                                 IF Len(frac) > 0 THEN TokenLoc(q2, Len(frac))
                                 ELSE None)
      IN  IF dot.st = "Ok"
          THEN Ok(fe, Parsed("Text",
                             int \o <<".">> \o (IF frac = <<>> THEN <<"0">> ELSE frac),
                             <<>>, <<>>, merge_locs(int_loc, frac_loc)))
          ELSE Ok(e, Parsed("Text", int, <<>>, <<>>, int_loc))

\* NumberDotFrac with many0 in place of many1: a dot alone is taken.
NumberDotFrac_Many0(s, p) ==
    LET q0  == spaces_or_comments(s, p)
        dot == parsed_span(<<".">>, s, q0)
        q2  == spaces_or_comments(s, dot.pos)
        fe  == RunEnd(DigitChars, s, q2)
        frac == SubSeq(s, q2, fe - 1)
    IN  IF dot.st # "Ok" THEN Error(p)
        ELSE Ok(fe, Parsed("Text", <<"0", ".">> \o frac, <<>>, <<>>, dot.node.loc))

\* NumberDotFrac for which a dot that no digit follows is a fatal failure.
NumberDotFrac_Fatal(s, p) ==
    LET q0  == spaces_or_comments(s, p)
        dot == parsed_span(<<".">>, s, q0)
        q2  == spaces_or_comments(s, dot.pos)
        fe  == RunEnd(DigitChars, s, q2)
        frac == SubSeq(s, q2, fe - 1)
    IN  IF dot.st # "Ok" THEN Error(p)
        ELSE IF ~many1_digits_ok(s, q2) THEN Failure(p)
        ELSE Ok(fe, Parsed("Text", <<"0", ".">> \o frac, <<>>, <<>>,
                           merge_locs(dot.node.loc, TokenLoc(q2, Len(frac)))))

\* Second alternative: a dot, then at least one digit.
NumberDotFrac(s, p) ==
    LET q0  == spaces_or_comments(s, p)
        dot == parsed_span(<<".">>, s, q0)
        q2  == spaces_or_comments(s, dot.pos)
        fe  == RunEnd(DigitChars, s, q2)
        frac == SubSeq(s, q2, fe - 1)
    IN  IF dot.st # "Ok" \/ ~many1_digits_ok(s, q2) THEN Error(p)
        ELSE Ok(fe, Parsed("Text", <<"0", ".">> \o frac, <<>>, <<>>,
                           merge_locs(dot.node.loc, TokenLoc(q2, Len(frac)))))

\* parse_number with a failed conversion reported as a recoverable error.
parse_number_Recoverable(s, i) ==
    LET p1  == spaces_or_comments(s, i)
        neg == parsed_span(<<"-">>, s, p1)
        p2  == IF neg.st = "Ok" THEN neg.pos ELSE p1
        p3  == spaces_or_comments(s, p2)
        a1  == NumberIntFrac(s, p3)
        num == IF a1.st = "Ok" THEN a1 ELSE NumberDotFrac(s, p3)
        number == (IF neg.st = "Ok" THEN <<"-">> ELSE <<>>) \o num.node.text
        conv   == NumberFromStr(number)
    IN  IF num.st # "Ok" THEN Error(i) @@ [number |-> <<>>]
        ELSE IF conv.ok
        THEN Ok(spaces_or_comments(s, num.pos),
                Parsed("Number", conv.val, <<>>, <<>>,
                       merge_locs(IF neg.st = "Ok" THEN neg.node.loc ELSE None,
                                  num.node.loc)))
                 @@ [number |-> number]
        ELSE Error(i) @@ [number |-> number]

\* The result has one more field, number: the text handed to the numeric
\* conversion (empty when the production did not match).
parse_number(s, i) ==
    LET p1  == spaces_or_comments(s, i)
        neg == parsed_span(<<"-">>, s, p1)
        p2  == IF neg.st = "Ok" THEN neg.pos ELSE p1
        p3  == spaces_or_comments(s, p2)
        a1  == NumberIntFrac(s, p3)
        num == IF a1.st = "Ok" THEN a1 ELSE NumberDotFrac(s, p3)
        suffix == spaces_or_comments(s, num.pos)
        number == (IF neg.st = "Ok" THEN <<"-">> ELSE <<>>) \o num.node.text
        conv   == NumberFromStr(number)
        loc    == merge_locs(IF neg.st = "Ok" THEN neg.node.loc ELSE None,
                             num.node.loc)
    IN  IF num.st # "Ok"
        THEN [st |-> num.st, pos |-> i, node |-> NoNode] @@ [number |-> <<>>]
        ELSE IF conv.ok
        THEN Ok(suffix, Parsed("Number", conv.val, <<>>, <<>>, loc))
                 @@ [number |-> number]
        ELSE Failure(i) @@ [number |-> number]

-----------------------------------------------------------------------------
(* Strings, keys and path selections *)

\* The scan of a quoted string body from position j up to the closing quote
\* q: [close, text], close = 0 when the string is not terminated.  A
\* backslash takes the next character literally.
RECURSIVE StringBody(_, _, _, _)
StringBody(s, j, q, acc) ==
    IF j > Len(s) THEN [close |-> 0, text |-> acc]
    ELSE IF s[j] = q THEN [close |-> j, text |-> acc]
    ELSE IF s[j] = "\\"
    THEN IF j + 1 > Len(s) THEN [close |-> 0, text |-> acc]
         ELSE StringBody(s, j + 2, q, Append(acc, s[j + 1]))
    ELSE StringBody(s, j + 1, q, Append(acc, s[j]))

\* A single- or double-quoted string with whitespace allowed on both sides;
\* the location covers the quotes.
parse_string_literal(s, i) ==
    LET p == spaces_or_comments(s, i)
    IN  IF p > Len(s) \/ s[p] \notin {"'", "\""} THEN Error(i)
        ELSE LET b == StringBody(s, p + 1, s[p], <<>>)
             IN  IF b.close = 0 THEN Error(i)
                 ELSE Ok(spaces_or_comments(s, b.close + 1),
                         Parsed("String", b.text, <<>>, <<>>,
                                TokenLoc(p, b.close - p + 1)))

\* Identifier ::= [a-zA-Z_] [0-9a-zA-Z_]*, with whitespace allowed on both sides.
parse_identifier(s, i) ==
    LET p == spaces_or_comments(s, i)
    IN  IF p > Len(s) \/ s[p] \notin IdentStart THEN Error(i)
        ELSE LET e == RunEnd(IdentChars, s, p + 1)
             IN  Ok(spaces_or_comments(s, e),
                    Parsed("Identifier", SubSeq(s, p, e - 1), <<>>, <<>>,
                           TokenLoc(p, e - p)))

\* Key ::= Identifier | QuotedString.  The node of the result is the key.
Key_parse(s, i) ==
    LET Quoted(qs) ==
            IF qs.st = "Ok"
            THEN Ok(qs.pos, Segment("Quoted", qs.node.text, qs.node.loc))
            ELSE Error(i)
        Field(id) ==
            IF id.st = "Ok"
            THEN Ok(id.pos, Segment("Field", id.node.text, id.node.loc))
            ELSE Quoted(parse_string_literal(s, i))
    IN  Field(parse_identifier(s, i))

\* PathTail ::= ("." Key PathTail) | empty.  [pos, segs]: the key segments
\* read and the position after them.  A dot that no key follows is not read.
RECURSIVE PathTail(_, _)
PathTail(s, j) ==
    LET q == spaces_or_comments(s, j)
        Step(k, rest) == [pos |-> rest.pos, segs |-> <<k.node>> \o rest.segs]
        AfterDot(k) ==
            IF k.st = "Ok" THEN Step(k, PathTail(s, k.pos))
            ELSE [pos |-> j, segs |-> <<>>]
    IN  IF q <= Len(s) /\ s[q] = "." THEN AfterDot(Key_parse(s, q + 1))
        ELSE [pos |-> j, segs |-> <<>>]

EmptySegment == Segment("Empty", <<>>, None)

\* The location of a chain: from its first segment to its last.
ChainLoc(segs) ==
    IF segs = <<>> THEN None
    ELSE merge_locs(segs[1].loc, segs[Len(segs)].loc)

\* PathNode without the terminator.
PathNode_NoTerminator(segs) ==
    Parsed("Path", <<>>, segs, <<>>, ChainLoc(segs))

PathNode(segs) ==
    Parsed("Path", <<>>, Append(segs, EmptySegment), <<>>, ChainLoc(segs))

\* A path selection: a variable reference and any keys; or keys alone, the
\* first written with or without its dot.  A "$" names a variable by the
\* identifier that follows it directly ("$" alone is the root variable).
PathSelection_parse(s, i) ==
    LET p == spaces_or_comments(s, i)
        Chain(segs, pos) == Ok(spaces_or_comments(s, pos), PathNode(segs))
        FromVar(var, tail) == Chain(<<var>> \o tail.segs, tail.pos)
        VarEnd(e) ==
            FromVar(Segment("Var", SubSeq(s, p + 1, e - 1), TokenLoc(p, e - p)),
                    PathTail(s, e))
        FromDot(tail) ==
            IF tail.segs = <<>> THEN Error(i) ELSE Chain(tail.segs, tail.pos)
        KeyThen(k, tail) == Chain(<<k.node>> \o tail.segs, tail.pos)
        FromKey(k) ==
            IF k.st # "Ok" THEN Error(i) ELSE KeyThen(k, PathTail(s, k.pos))
    IN  IF p > Len(s) THEN Error(i)
        ELSE IF s[p] = "$"
        THEN VarEnd(IF p + 1 <= Len(s) /\ s[p + 1] \in IdentStart
                    THEN RunEnd(IdentChars, s, p + 2)
                    ELSE p + 1)
        ELSE IF s[p] = "."
        THEN FromDot(PathTail(s, p))
        ELSE FromKey(Key_parse(s, p))

-----------------------------------------------------------------------------
(* The literal-expression parser *)

\* IndexMap::insert on the entries of an ordered map: a key already present
\* keeps its entry, its key and its position and takes the new value; a new
\* key is appended.  Keys are compared by form and name, not by location.
SameKey(a, b) == a.form = b.form /\ a.name = b.name

\* insert that puts a new key in front of the entries.
insert_Prepend(entries, key, value) ==
    IF \E k \in 1..Len(entries) : SameKey(entries[k].key, key)
    THEN [k \in 1..Len(entries) |->
             IF SameKey(entries[k].key, key)
             THEN [key |-> entries[k].key, value |-> value]
             ELSE entries[k]]
    ELSE <<[key |-> key, value |-> value]>> \o entries

\* insert that keeps the value of a key already present.
insert_FirstWins(entries, key, value) ==
    IF \E k \in 1..Len(entries) : SameKey(entries[k].key, key)
    THEN entries
    ELSE Append(entries, [key |-> key, value |-> value])

\* insert that takes keys of one name for one key, whatever their form.
insert_ByName(entries, key, value) ==
    IF \E k \in 1..Len(entries) : entries[k].key.name = key.name
    THEN [k \in 1..Len(entries) |->
             IF entries[k].key.name = key.name
             THEN [key |-> entries[k].key, value |-> value]
             ELSE entries[k]]
    ELSE Append(entries, [key |-> key, value |-> value])

insert(entries, key, value) ==
    IF \E k \in 1..Len(entries) : SameKey(entries[k].key, key)
    THEN [k \in 1..Len(entries) |->
             IF SameKey(entries[k].key, key)
             THEN [key |-> entries[k].key, value |-> value]
             ELSE entries[k]]
    ELSE Append(entries, [key |-> key, value |-> value])

RECURSIVE InsertAll(_, _)
InsertAll(entries, props) ==
    IF props = <<>> THEN entries
    ELSE InsertAll(insert(entries, props[1].key, props[1].value), Tail(props))

\* An order that tries the path before the keywords.
AltOrder_PathBeforeKeywords == <<1, 2, 8, 3, 4, 5, 6, 7>>

\* The order in which LitExpr::parse tries its alternatives.
\*   1 string, 2 number, 3 "true", 4 "false", 5 "null", 6 object, 7 array, 8 path
AltOrder == <<1, 2, 3, 4, 5, 6, 7, 8>>

RECURSIVE parse(_, _)
RECURSIVE LitAlternative(_, _, _)
RECURSIVE alt(_, _, _, _)
RECURSIVE parse_object(_, _)
RECURSIVE parse_property(_, _)
RECURSIVE many0_property(_, _)
RECURSIVE parse_array(_, _)
RECURSIVE many0_element(_, _)

\* A result without the fields a particular parser adds to it.
Plain(r) == [st |-> r.st, pos |-> r.pos, node |-> r.node]

\* map(parsed_span(tok), ...): the node for a keyword that was matched.
Keyword(r, tag, text) ==
    IF r.st # "Ok" THEN r
    ELSE Ok(r.pos, Parsed(tag, text, <<>>, <<>>, r.node.loc))

\* The k-th alternative of LitExpr::parse at position p.
LitAlternative(k, s, p) ==
    CASE k = 1 -> parse_string_literal(s, p)
      [] k = 2 -> Plain(parse_number(s, p))
      [] k = 3 -> Keyword(parsed_span(<<"t", "r", "u", "e">>, s, p), "Bool", <<"true">>)
      [] k = 4 -> Keyword(parsed_span(<<"f", "a", "l", "s", "e">>, s, p), "Bool", <<"false">>)
      [] k = 5 -> Keyword(parsed_span(<<"n", "u", "l", "l">>, s, p), "Null", <<>>)
      [] k = 6 -> parse_object(s, p)
      [] k = 7 -> parse_array(s, p)
      [] k = 8 -> PathSelection_parse(s, p)

\* nom's alt: the first alternative, from the n-th of order on, that does not
\* fail recoverably decides; a fatal failure is returned at once.
alt(order, n, s, p) ==
    LET Decide(r) == IF r.st = "Error" THEN alt(order, n + 1, s, p) ELSE r
    IN  IF n > Len(order) THEN Error(p)
        ELSE Decide(LitAlternative(order[n], s, p))

\* parse that fails when text is left over after the literal.
parse_WholeInput(s, i) ==
    LET Whole(v, end) ==
            IF v.st = "Ok" /\ end = Len(s) + 1 THEN Ok(end, v.node)
            ELSE [st |-> IF v.st = "Ok" THEN "Error" ELSE v.st,
                  pos |-> i, node |-> NoNode]
        Value(v) == Whole(v, spaces_or_comments(s, v.pos))
    IN  Value(alt(AltOrder, 1, s, spaces_or_comments(s, i)))

\* parse without the whitespace skipped after the literal.
parse_NoTrailingSpaces(s, i) ==
    LET Value(v) ==
            IF v.st = "Ok" THEN Ok(v.pos, v.node)
            ELSE [st |-> v.st, pos |-> i, node |-> NoNode]
    IN  Value(alt(AltOrder, 1, s, spaces_or_comments(s, i)))

\* LitExpr ::= LitPrimitive | LitObject | LitArray | PathSelection
parse(s, i) ==
    LET Value(v) ==
            IF v.st = "Ok" THEN Ok(spaces_or_comments(s, v.pos), v.node)
            ELSE [st |-> v.st, pos |-> i, node |-> NoNode]
    IN  Value(alt(AltOrder, 1, s, spaces_or_comments(s, i)))

\* LitProperty ::= Key ":" LitExpr.  The node of the result is [key, value].
parse_property(s, i) ==
    LET WithValue(k, v) ==
            IF v.st # "Ok" THEN [st |-> v.st, pos |-> i, node |-> NoNode]
            ELSE [st |-> "Ok", pos |-> v.pos,
                  node |-> [key |-> k.node, value |-> v.node]]
        WithColon(k, c) ==
            IF c.st # "Ok" THEN Error(i) ELSE WithValue(k, parse(s, c.pos))
        WithKey(k) ==
            IF k.st # "Ok" THEN Error(i) ELSE WithColon(k, char(":", s, k.pos))
    IN  WithKey(Key_parse(s, i))

\* many0(preceded(char(','), parse_property)): [st, pos, items].  It stops,
\* with nothing consumed, before a comma that no property follows.
many0_property(s, j) ==
    LET More(r, rest) ==
            [st |-> rest.st, pos |-> rest.pos, items |-> <<r.node>> \o rest.items]
        Property(r) ==
            IF r.st = "Error" THEN [st |-> "Ok", pos |-> j, items |-> <<>>]
            ELSE IF r.st = "Failure" THEN [st |-> "Failure", pos |-> j, items |-> <<>>]
            ELSE More(r, many0_property(s, r.pos))
    IN  IF char(",", s, j).st # "Ok" THEN [st |-> "Ok", pos |-> j, items |-> <<>>]
        ELSE Property(parse_property(s, j + 1))

\* opt_comma that never takes the comma.
opt_comma_Never(s, j) == j

\* opt(char(',')): the position after a comma at j, or j.
opt_comma(s, j) == IF char(",", s, j).st = "Ok" THEN j + 1 ELSE j

\* LitObject ::= "{" (LitProperty ("," LitProperty)* ","?)? "}"
parse_object(s, i) ==
    LET Closing(open, output, close) ==
            IF close.st # "Ok" THEN Error(i)
            ELSE Ok(spaces_or_comments(s, close.pos),
                    Parsed("Object", <<>>,
                           [k \in 1..Len(output) |-> output[k].key],
                           [k \in 1..Len(output) |-> output[k].value],
                           merge_locs(open.node.loc, close.node.loc)))
        Properties(open, output, p3) ==
            Closing(open, output, parsed_span(<<"}">>, s, spaces_or_comments(s, p3)))
        Rest(open, first, rest) ==
            IF rest.st = "Failure" THEN Failure(i)
            ELSE Properties(open,
                            InsertAll(insert(<<>>, first.node.key, first.node.value),
                                      rest.items),
                            opt_comma(s, rest.pos))
        First(open, p2, first) ==
            IF first.st = "Failure" THEN Failure(i)
            ELSE IF first.st = "Error" THEN Properties(open, <<>>, p2)
            ELSE Rest(open, first, many0_property(s, first.pos))
        Opening(open, p2) ==
            IF open.st # "Ok" THEN Error(i)
            ELSE First(open, p2, parse_property(s, p2))
        Brace(open) == Opening(open, spaces_or_comments(s, open.pos))
    IN  Brace(parsed_span(<<"{">>, s, spaces_or_comments(s, i)))

\* many0(preceded(char(','), Self::parse)): [st, pos, items].
many0_element(s, j) ==
    LET More(r, rest) ==
            [st |-> rest.st, pos |-> rest.pos, items |-> <<r.node>> \o rest.items]
        Element(r) ==
            IF r.st = "Error" THEN [st |-> "Ok", pos |-> j, items |-> <<>>]
            ELSE IF r.st = "Failure" THEN [st |-> "Failure", pos |-> j, items |-> <<>>]
            ELSE More(r, many0_element(s, r.pos))
    IN  IF char(",", s, j).st # "Ok" THEN [st |-> "Ok", pos |-> j, items |-> <<>>]
        ELSE Element(parse(s, j + 1))

\* LitArray ::= "[" (LitExpr ("," LitExpr)* ","?)? "]"
parse_array(s, i) ==
    LET Closing(open, output, close) ==
            IF close.st # "Ok" THEN Error(i)
            ELSE Ok(spaces_or_comments(s, close.pos),
                    Parsed("Array", <<>>, <<>>, output,
                           merge_locs(open.node.loc, close.node.loc)))
        Elements(open, output, p3) ==
            Closing(open, output, parsed_span(<<"]">>, s, spaces_or_comments(s, p3)))
        Rest(open, first, rest) ==
            IF rest.st = "Failure" THEN Failure(i)
            ELSE Elements(open, <<first.node>> \o rest.items, opt_comma(s, rest.pos))
        First(open, p2, first) ==
            IF first.st = "Failure" THEN Failure(i)
            ELSE IF first.st = "Error" THEN Elements(open, <<>>, p2)
            ELSE Rest(open, first, many0_element(s, first.pos))
        Opening(open, p2) ==
            IF open.st # "Ok" THEN Error(i)
            ELSE First(open, p2, parse(s, p2))
        Bracket(open) == Opening(open, spaces_or_comments(s, open.pos))
    IN  Bracket(parsed_span(<<"[">>, s, spaces_or_comments(s, i)))

\* The unconsumed remainder of a result on text s.
Remainder(s, r) == SubSeq(s, r.pos, Len(s))

-----------------------------------------------------------------------------
(* Free-variable extraction *)

\* What a path selection reports: itself, when it starts from a named
\* variable.
PathSelection_external_var_paths(path) ==
    IF path.keys[1].form = "Var" /\ path.keys[1].name # <<>>
    THEN <<path>> ELSE <<>>

RECURSIVE external_var_paths(_)
RECURSIVE ExtendAll(_, _)

\* ExtendAll that puts the paths of each later value in front.
ExtendAll_Reversed(acc, values) ==
    IF values = <<>> THEN acc
    ELSE ExtendAll(external_var_paths(values[1]) \o acc, Tail(values))

\* paths extended by the paths of each of values, in order.
ExtendAll(acc, values) ==
    IF values = <<>> THEN acc
    ELSE ExtendAll(acc \o external_var_paths(values[1]), Tail(values))

\* external_var_paths that does not look into objects.
external_var_paths_ObjectsSkipped(node) ==
    CASE node.tag \in {"String", "Number", "Bool", "Null", "Object"} -> <<>>
      [] node.tag = "Array"  -> ExtendAll(<<>>, node.kids)
      [] node.tag = "Path"   -> PathSelection_external_var_paths(node)

external_var_paths(node) ==
    CASE node.tag \in {"String", "Number", "Bool", "Null"} -> <<>>
      [] node.tag = "Object" -> ExtendAll(<<>>, node.kids)
      [] node.tag = "Array"  -> ExtendAll(<<>>, node.kids)
      [] node.tag = "Path"   -> PathSelection_external_var_paths(node)

-----------------------------------------------------------------------------
(* strip_loc: the same value with every location None *)

StripSegments(segs) ==
    [k \in 1..Len(segs) |-> Segment(segs[k].form, segs[k].name, None)]

RECURSIVE strip_loc(_)
strip_loc(node) ==
    Parsed(node.tag, node.text, StripSegments(node.keys),
           [k \in 1..Len(node.kids) |-> strip_loc(node.kids[k])], None)

-----------------------------------------------------------------------------
(* Source texts *)

\* The concatenation of a sequence of texts.
RECURSIVE Flatten(_)
Flatten(fs) == IF fs = <<>> THEN <<>> ELSE fs[1] \o Flatten(Tail(fs))

\* Every sequence of at most n members of S.
SeqsUpTo(S, n) == UNION {[1..k -> S] : k \in 0..n}

\* Every text made of at most n of the fragments frags.
Texts(frags, n) == {Flatten(fs) : fs \in SeqsUpTo(frags, n)}

NoResult == [st |-> "None", pos |-> 0, node |-> NoNode]

\* No custom event is configured and no callback has run.
NoCustomEvent ==
    [name |-> "", level |-> "Off", event_on |-> "Request", message |-> "",
     selectors |-> FALSE, attributes |-> <<>>]

NoTelemetry == inner = NoCustomEvent /\ log = <<>> /\ calls = <<>>

InitWith(texts) ==
    /\ input \in texts
    /\ written = <<>>
    /\ pc = "start"
    /\ result = NoResult
    /\ orig = NoResult
    /\ edits = 0
    /\ paths = <<>>
    /\ NoTelemetry

\* A call of LitExpr::parse on the whole text.
Parse ==
    /\ pc = "start"
    /\ result' = parse(input, 1)
    /\ orig' = result'
    /\ pc' = "parsed"
    /\ UNCHANGED <<input, written, edits, paths, inner, log, calls>>

\* A call of parse_number on the whole text.
ParseNumber ==
    /\ pc = "start"
    /\ result' = parse_number(input, 1)
    /\ orig' = result'
    /\ pc' = "number"
    /\ UNCHANGED <<input, written, edits, paths, inner, log, calls>>

\* The text was accepted: parsed with nothing left over.
Accepted(s, r) == r.st = "Ok" /\ r.pos = Len(s) + 1

-----------------------------------------------------------------------------
(* Number texts *)

\* s without its whitespace characters.
Compact(s) == SelectSeq(s, LAMBDA c : c \notin Whitespace)

\* s without its leading and trailing whitespace.
RECURSIVE TrimRight(_)
TrimRight(s) ==
    IF Len(s) > 0 /\ s[Len(s)] \in Whitespace
    THEN TrimRight(SubSeq(s, 1, Len(s) - 1)) ELSE s

Trim(s) ==
    LET r == TrimRight(s)
    IN  SubSeq(r, RunEnd(Whitespace, r, 1), Len(r))

\* The text, whitespace aside, is in the Number production: an optional
\* sign, then digits with at most one dot among them and at least one digit;
\* and no whitespace splits a digit run.
IsNumberText(c) ==
    LET body == IF Len(c) > 0 /\ c[1] = "-" THEN Tail(c) ELSE c
    IN  /\ \A k \in 1..Len(body) : body[k] \in DigitChars \cup {"."}
        /\ Cardinality({k \in 1..Len(body) : body[k] = "."}) <= 1
        /\ \E k \in 1..Len(body) : body[k] \in DigitChars

SplitsDigitRun(s) ==
    \E i, k \in 1..Len(s) :
        /\ i + 1 < k
        /\ s[i] \in DigitChars /\ s[k] \in DigitChars
        /\ \A j \in (i + 1)..(k - 1) : s[j] \in Whitespace

MatchesNumber(s) == IsNumberText(Compact(s)) /\ ~SplitsDigitRun(s)

\* The normalized text the specification gives for a compact number text:
\* the sign, the integer digits or "0", and, if a dot is written, the dot and
\* the fraction digits or "0".
Normalized(c) ==
    LET neg  == Len(c) > 0 /\ c[1] = "-"
        body == IF neg THEN Tail(c) ELSE c
        dot  == DotIndex(body)
        int  == IF dot = 0 THEN body ELSE SubSeq(body, 1, dot - 1)
        frac == IF dot = 0 THEN <<>> ELSE SubSeq(body, dot + 1, Len(body))
    IN  (IF neg THEN <<"-">> ELSE <<>>)
        \o (IF int = <<>> THEN <<"0">> ELSE int)
        \o (IF dot = 0 THEN <<>>
            ELSE <<".">> \o (IF frac = <<>> THEN <<"0">> ELSE frac))

\* C2: for every input matching the Number production, the text handed to
\* the numeric conversion is the sign, the integer digits (or "0"), and, only
\* if a dot was written, "." and the fraction digits (or "0").
NumberTextIsNormalized ==
    (pc = "number" /\ MatchesNumber(input))
        => /\ result.st # "Error"
           /\ result.number = Normalized(Compact(input))

NumberTextIsNormalizedWitness ==
    /\ pc = "number"
    /\ input = <<"-", ".", "1", "2">>
    /\ result.st = "Ok"
    /\ result.number = <<"-", "0", ".", "1", "2">>

\* C4: a dot with no digit at all, "." or "-." with or without whitespace, is
\* a recoverable failure of parse_number and a failure of LitExpr::parse.
DotWithoutDigitFails ==
    Compact(input) \in {<<".">>, <<"-", ".">>}
        => /\ pc = "number" => result.st = "Error"
           /\ pc = "parsed" => result.st \in {"Error", "Failure"}

DotWithoutDigitFailsWitness ==
    /\ pc = "number"
    /\ input = <<"-", " ", ".">>
    /\ result.st = "Error"


MaxNumberLen == 4

NumberFrags == {<<" ">>, <<"-">>, <<".">>, <<"0">>, <<"1">>, <<"2">>}

InitNumber == InitWith(Texts(NumberFrags, MaxNumberLen))

NextNumber == ParseNumber \/ Parse

SpecNumber == InitNumber /\ [][NextNumber]_vars

-----------------------------------------------------------------------------
(* Keyword, primitive and path texts *)

MaxLitFrags == 4

LitFrags ==
    {<<" ">>, <<"t", "r", "u", "e">>, <<"f", "a", "l", "s", "e">>,
     <<"n", "u", "l", "l">>, <<"a">>, <<".">>, <<"1">>, <<"'", "s", "'">>,
     <<"[">>, <<"]">>}

InitLit == InitWith(Texts(LitFrags, MaxLitFrags))

NextLit == Parse

SpecLit == InitLit /\ [][NextLit]_vars

\* The place in the listed order string, number, true, false, null, object,
\* array, path of the alternative that produces a node.
AltOf(node) ==
    CASE node.tag = "String" -> 1
      [] node.tag = "Number" -> 2
      [] node.tag = "Bool" /\ node.text = <<"true">> -> 3
      [] node.tag = "Bool" /\ node.text = <<"false">> -> 4
      [] node.tag = "Null" -> 5
      [] node.tag = "Object" -> 6
      [] node.tag = "Array" -> 7
      [] node.tag = "Path" -> 8

KeywordNode(text) ==
    CASE text = <<"t", "r", "u", "e">> -> Parsed("Bool", <<"true">>, <<>>, <<>>, None)
      [] text = <<"f", "a", "l", "s", "e">> -> Parsed("Bool", <<"false">>, <<>>, <<>>, None)
      [] text = <<"n", "u", "l", "l">> -> Parsed("Null", <<>>, <<>>, <<>>, None)

Keywords == {<<"t", "r", "u", "e">>, <<"f", "a", "l", "s", "e">>, <<"n", "u", "l", "l">>}

\* C1: the alternatives are tried in the order string, number, true, false,
\* null, object, array, path and the first that matches is taken: every
\* alternative listed before the one that produced the result failed
\* recoverably at that position (so a Path means all seven others failed),
\* and true, false and null with any surrounding whitespace give Bool(true),
\* Bool(false) and Null, never a Path.
AlternativesInOrder ==
    pc = "parsed" =>
        /\ result.st = "Ok" =>
              \A k \in 1..(AltOf(result.node) - 1) :
                  LitAlternative(k, input, spaces_or_comments(input, 1)).st = "Error"
        /\ Trim(input) \in Keywords =>
              /\ Accepted(input, result)
              /\ strip_loc(result.node) = KeywordNode(Trim(input))

AlternativesInOrderWitness ==
    /\ pc = "parsed"
    /\ input = <<" ", "t", "r", "u", "e", " ">>
    /\ result.st = "Ok"
    /\ result.node.tag = "Bool"

-----------------------------------------------------------------------------
(* Number texts inside arrays and objects *)

MaxEmbeddedLen == 3

EmbeddedFrags == {<<"0">>, <<"1">>, <<"-">>, <<".">>}

\* The places a literal is written at: <<text before it, text after it>>.
Contexts ==
    { <<<<>>, <<>>>>,
      <<<<" ">>, <<" ">>>>,
      <<<<"[">>, <<"]">>>>,
      <<<<"[", "1", ",">>, <<"]">>>>,
      <<<<"[">>, <<",", "1", "]">>>>,
      <<<<"[", "[">>, <<"]", "]">>>>,
      <<<<"{", "a", ":">>, <<"}">>>>,
      <<<<"{", "a", ":", "1", ",", "b", ":">>, <<",", "}">>>>,
      <<<<"{", "a", ":", "[">>, <<"]", "}">>>> }

\* One written element or property: the text of its key (empty for an
\* element) and the text of its value.
Written(key, value) == [key |-> key, value |-> value]

InitEmbedded ==
    \E ctx \in Contexts, num \in Texts(EmbeddedFrags, MaxEmbeddedLen) :
        /\ input = ctx[1] \o num \o ctx[2]
        /\ written = <<Written(<<>>, num)>>
        /\ pc = "start"
        /\ result = NoResult
        /\ orig = NoResult
        /\ edits = 0
        /\ paths = <<>>
        /\ NoTelemetry

NextEmbedded == Parse

SpecEmbedded == InitEmbedded /\ [][NextEmbedded]_vars

\* C3: when parse_number matches the Number production but the conversion of
\* the normalized text fails, the failure is fatal: LitExpr::parse fails
\* fatally at that position, and so does the parse of an array or object
\* that holds the number as an element or a property value.
ConversionFails(num) ==
    MatchesNumber(num) /\ ~NumberFromStr(Normalized(Compact(num))).ok

BadNumberIsFatal ==
    (pc = "parsed" /\ ConversionFails(written[1].value))
        => result.st = "Failure"

BadNumberIsFatalWitness ==
    /\ pc = "parsed"
    /\ input = <<"[", "1", ",", "0", "1", "]">>
    /\ ConversionFails(written[1].value)
    /\ result.st = "Failure"

-----------------------------------------------------------------------------
(* Edits of the source text that the grammar says do not matter *)

MaxEdits == 1

PrimTexts ==
    {
     <<"1">>,
     <<"-", "1">>,
     <<"1", ".", "2">>,
     <<".", "2">>,
     <<"1", ".">>,
     <<"t", "r", "u", "e">>,
     <<"'", "s", "'">>,
     <<"a", ".", "b">>,
     <<".", "a">>,
     <<"$", "a", "r", "g", "s", ".", "a">>}

FewTexts ==
    {
     <<"1">>,
     <<"-", ".", "2">>,
     <<"n", "u", "l", "l">>,
     <<"$", "t", "h", "i", "s", ".", "b">>}

SpacedTexts ==
    {
     <<" ", "[", " ", "1", " ", ",", " ", "2", " ", "]", " ">>,
     <<"{", " ", "a", " ", ":", " ", "1", " ", ",", " ", "}">>,
     <<"-", " ", "1", " ", ".", " ", "2">>,
     <<"[", " ", ".", " ", "a", " ", ",", " ", "b", " ", ".", " ", "c", " ", "]">>,
     <<"{", " ", "'", "b", "'", " ", ":", " ", "$", "a", "r", "g", "s", " ", ".", " ", "a", " ", "}">>,
     <<"[", "1", ",", "#", "x", "\n", "2", "]">>,
     <<" ", "t", "r", "u", "e", " ">>}

\* Arrays and objects of one or two of the given literals, and one level of
\* nesting.
ContainerTexts ==
    {<<"[", "]">>, <<"{", "}">>}
    \cup {<<"[">> \o x \o <<"]">> : x \in PrimTexts}
    \cup {<<"{", "a", ":">> \o x \o <<"}">> : x \in PrimTexts}
    \cup {<<"[">> \o x \o <<",">> \o y \o <<"]">> : x \in FewTexts, y \in FewTexts}
    \cup {<<"{", "a", ":">> \o x \o <<",", "'", "b", "'", ":">> \o y \o <<"}">> :
             x \in FewTexts, y \in FewTexts}
    \cup {<<"[", "[">> \o x \o <<"]", ",", "{", "b", ":", "1", "}", "]">> :
             x \in FewTexts}

EditTexts == PrimTexts \cup ContainerTexts \cup SpacedTexts

InitEdit == InitWith(EditTexts)

\* The lexical mode after the first i characters of s: in code, inside a
\* single- or double-quoted string, or inside a comment.
RECURSIVE ModeAt(_, _)
ModeAt(s, i) ==
    IF i = 0 THEN "code"
    ELSE LET m == ModeAt(s, i - 1)
             c == s[i]
         IN  CASE m = "code" ->
                     (IF c = "'" THEN "sq" ELSE IF c = "\"" THEN "dq"
                      ELSE IF c = "#" THEN "comment" ELSE "code")
               [] m = "sq" -> (IF c = "'" THEN "code" ELSE "sq")
               [] m = "dq" -> (IF c = "\"" THEN "code" ELSE "dq")
               [] m = "comment" -> (IF c = "\n" THEN "code" ELSE "comment")

\* Character j of s is whitespace between tokens or part of a comment.
IsIgnorable(s, j) ==
    \/ ModeAt(s, j) = "comment"
    \/ ModeAt(s, j - 1) = "comment"
    \/ ModeAt(s, j - 1) = "code" /\ s[j] \in Whitespace

\* The gap after character i of s (0 for the start) lies between tokens: not
\* in a string or comment, and not inside a digit run, an identifier, a
\* keyword or a variable name.
BetweenTokens(s, i) ==
    /\ ModeAt(s, i) = "code"
    /\ ~(/\ i >= 1 /\ i < Len(s)
         /\ s[i] \in IdentChars \cup {"$"}
         /\ s[i + 1] \in IdentChars)

\* s with text w put in after character i.
InsertAt(s, i, w) == SubSeq(s, 1, i) \o w \o SubSeq(s, i + 1, Len(s))

\* s without its characters i..j.
RemoveRange(s, i, j) == SubSeq(s, 1, i - 1) \o SubSeq(s, j + 1, Len(s))

Ignorables == {<<" ">>, <<"#", "x", "\n">>}

CanEdit ==
    /\ pc \in {"parsed", "spaced", "comma"}
    /\ Accepted(input, result)
    /\ edits < MaxEdits

\* Whitespace or a comment is inserted between two tokens and the text is
\* parsed again.
InsertIgnorable ==
    /\ CanEdit
    /\ \E i \in 0..Len(input), w \in Ignorables :
          /\ BetweenTokens(input, i)
          /\ input' = InsertAt(input, i, w)
    /\ result' = parse(input', 1)
    /\ pc' = "spaced"
    /\ edits' = edits + 1
    /\ UNCHANGED <<written, orig, paths, inner, log, calls>>

\* A whitespace character between tokens, or a whole comment, is removed and
\* the text is parsed again.
RemoveIgnorable ==
    /\ CanEdit
    /\ \E i \in 1..Len(input) :
          /\ ModeAt(input, i - 1) = "code"
          /\ \/ /\ input[i] \in Whitespace
                /\ input' = RemoveRange(input, i, i)
             \/ /\ input[i] = "#"
                /\ input' = RemoveRange(input, i, SkipComment(input, i + 1) - 1)
    /\ result' = parse(input', 1)
    /\ pc' = "spaced"
    /\ edits' = edits + 1
    /\ UNCHANGED <<written, orig, paths, inner, log, calls>>

\* The last character before position i of s that is not ignorable, or "" if
\* there is none.
RECURSIVE PrevSignificant(_, _)
PrevSignificant(s, i) ==
    IF i <= 1 THEN ""
    ELSE IF IsIgnorable(s, i - 1) THEN PrevSignificant(s, i - 1)
    ELSE s[i - 1]

\* One comma is added after the last element or property of a non-empty
\* array or object, directly before its closing bracket, and the text is
\* parsed again.
AddTrailingComma ==
    /\ CanEdit
    /\ \E i \in 1..Len(input) :
          /\ input[i] \in {"]", "}"}
          /\ ModeAt(input, i - 1) = "code"
          /\ PrevSignificant(input, i) \notin {"[", "{", ",", ""}
          /\ input' = InsertAt(input, i - 1, <<",">>)
    /\ result' = parse(input', 1)
    /\ pc' = "comma"
    /\ edits' = edits + 1
    /\ UNCHANGED <<written, orig, paths, inner, log, calls>>

NextEdit == Parse \/ InsertIgnorable \/ RemoveIgnorable \/ AddTrailingComma

SpecEdit == InitEdit /\ [][NextEdit]_vars

\* C5: for an accepted text, inserting or removing whitespace or comments
\* between tokens gives a text that is accepted too, with the same AST once
\* locations are stripped.
WhitespaceInsensitive ==
    pc = "spaced" =>
        /\ Accepted(input, result)
        /\ strip_loc(result.node) = strip_loc(orig.node)

WhitespaceInsensitiveWitness ==
    /\ pc = "spaced"
    /\ input = <<"-", " ", "1", " ", ".", "2">>
    /\ Accepted(input, result)
    /\ strip_loc(result.node) = strip_loc(orig.node)
    /\ result.node.tag = "Number"

\* C6: for a non-empty array or object that parses, the same text with one
\* comma added after the last element or property is accepted too, with the
\* same AST once locations are stripped.
TrailingCommaTolerated ==
    pc = "comma" =>
        /\ Accepted(input, result)
        /\ strip_loc(result.node) = strip_loc(orig.node)

TrailingCommaToleratedWitness ==
    /\ pc = "comma"
    /\ input = <<"{", "a", ":", "1", ",", "'", "b", "'", ":", "1", ",", "}">>
    /\ Accepted(input, result)
    /\ Len(result.node.kids) = 2
    /\ strip_loc(result.node) = strip_loc(orig.node)

-----------------------------------------------------------------------------
(* Arrays and objects written from a list of elements or properties *)

MaxProps == 3

KeyTexts == {<<"a">>, <<"b">>, <<"'", "a", "'">>, <<"\"", "a", "\"">>}

ValueTexts == {<<"1">>, <<"2">>, <<".", "a">>}

\* The text of the elements or properties ws, separated by commas.
RECURSIVE RenderList(_)
RenderList(ws) ==
    IF ws = <<>> THEN <<>>
    ELSE (IF ws[1].key = <<>> THEN <<>> ELSE ws[1].key \o <<":">>)
         \o ws[1].value
         \o (IF Len(ws) = 1 THEN <<>> ELSE <<",">> \o RenderList(Tail(ws)))

RenderArray(ws) == <<"[">> \o RenderList(ws) \o <<"]">>

RenderObject(ws) == <<"{">> \o RenderList(ws) \o <<"}">>

InitContainer ==
    /\ \/ \E ws \in SeqsUpTo({Written(k, v) : k \in KeyTexts, v \in ValueTexts},
                             MaxProps) :
             written = ws /\ input = RenderObject(ws)
       \/ \E ws \in SeqsUpTo({Written(<<>>, v) : v \in ValueTexts}, MaxProps) :
             written = ws /\ input = RenderArray(ws)
    /\ pc = "start"
    /\ result = NoResult
    /\ orig = NoResult
    /\ edits = 0
    /\ paths = <<>>
    /\ NoTelemetry

NextContainer == Parse

SpecContainer == InitContainer /\ [][NextContainer]_vars

\* The key and the value a written text stands for, without locations.
KeyNode(text) ==
    IF text[1] \in {"'", "\""}
    THEN Segment("Quoted", SubSeq(text, 2, Len(text) - 1), None)
    ELSE Segment("Field", text, None)

ValueNode(text) ==
    CASE text = <<"1">> -> Parsed("Number", <<"Int", "+", "1">>, <<>>, <<>>, None)
      [] text = <<"2">> -> Parsed("Number", <<"Int", "+", "2">>, <<>>, <<>>, None)
      [] text = <<".", "a">> ->
            Parsed("Path", <<>>,
                   <<Segment("Field", <<"a">>, None), EmptySegment>>, <<>>, None)

StripKey(key) == Segment(key.form, key.name, None)

WrittenAsObject == input[1] = "{"

DistinctKeys ==
    \A i, j \in 1..Len(written) :
        i # j => KeyNode(written[i].key) # KeyNode(written[j].key)

\* C7: source order is preserved: the i-th element of a parsed array is the
\* i-th element written, and for an object whose keys are pairwise distinct
\* the i-th entry is the i-th property written, key and value; nothing is
\* dropped, duplicated or reordered.
SourceOrderPreserved ==
    (pc = "parsed" /\ (WrittenAsObject => DistinctKeys)) =>
        /\ Accepted(input, result)
        /\ result.node.tag = (IF WrittenAsObject THEN "Object" ELSE "Array")
        /\ Len(result.node.kids) = Len(written)
        /\ \A i \in 1..Len(written) :
              strip_loc(result.node.kids[i]) = ValueNode(written[i].value)
        /\ WrittenAsObject =>
              /\ Len(result.node.keys) = Len(written)
              /\ \A i \in 1..Len(written) :
                    StripKey(result.node.keys[i]) = KeyNode(written[i].key)

SourceOrderPreservedWitness ==
    /\ pc = "parsed"
    /\ input = <<"{", "b", ":", "2", ",", "'", "a", "'", ":", "1", ",", "a", ":", ".", "a", "}">>
    /\ DistinctKeys
    /\ Len(result.node.keys) = 3
    /\ StripKey(result.node.keys[1]) = Segment("Field", <<"b">>, None)

\* The places in written where the key is written.
Occurrences(key) ==
    {i \in 1..Len(written) : KeyNode(written[i].key) = StripKey(key)}

FirstOccurrence(key) ==
    CHOOSE i \in Occurrences(key) : \A j \in Occurrences(key) : i <= j

LastOccurrence(key) ==
    CHOOSE i \in Occurrences(key) : \A j \in Occurrences(key) : i >= j

\* C8: duplicate keys are last-write-wins without moving the entry: the map
\* has one entry per distinct key written, the entries stand in the order of
\* the keys' first occurrences, and each has the value of its key's last
\* occurrence.
DuplicateKeysLastWins ==
    (pc = "parsed" /\ WrittenAsObject) =>
        /\ Accepted(input, result)
        /\ result.node.tag = "Object"
        /\ Len(result.node.keys) = Len(result.node.kids)
        /\ Len(result.node.keys)
               = Cardinality({KeyNode(written[i].key) : i \in 1..Len(written)})
        /\ \A j \in 1..Len(result.node.keys) :
              /\ Occurrences(result.node.keys[j]) # {}
              /\ strip_loc(result.node.kids[j])
                     = ValueNode(written[LastOccurrence(result.node.keys[j])].value)
              /\ \A k \in 1..(j - 1) :
                     FirstOccurrence(result.node.keys[k])
                         < FirstOccurrence(result.node.keys[j])

DuplicateKeysLastWinsWitness ==
    /\ pc = "parsed"
    /\ input = <<"{", "a", ":", "1", ",", "b", ":", "1", ",", "a", ":", "2", "}">>
    /\ Len(result.node.keys) = 2
    /\ StripKey(result.node.keys[1]) = Segment("Field", <<"a">>, None)
    /\ result.node.kids[1].text = <<"Int", "+", "2">>

-----------------------------------------------------------------------------
(* Free-variable extraction from parsed literals *)

MaxItems == 2

LeafTexts == {<<"$", "a">>, <<"$", "b", ".", "c">>, <<".", "k">>}

KeyAt(i) == <<<<"a">>, <<"b">>, <<"c">>, <<"d">>>>[i]

Elements(vs) == [i \in 1..Len(vs) |-> Written(<<>>, vs[i])]

Properties(vs) == [i \in 1..Len(vs) |-> Written(KeyAt(i), vs[i])]

InnerTexts ==
    {RenderArray(Elements(vs)) : vs \in SeqsUpTo(LeafTexts, MaxItems)}
        \cup {RenderObject(Properties(vs)) : vs \in SeqsUpTo(LeafTexts, MaxItems)}

ItemTexts ==
    LeafTexts \cup InnerTexts
        \cup {<<"'", "s", "'">>, <<"1">>, <<"t", "r", "u", "e">>, <<"n", "u", "l", "l">>}

ArgsA == <<"$", "a", "r", "g", "s", ".", "a">>

ThisB == <<"$", "t", "h", "i", "s", ".", "b">>

\* { a: $args.a, b: $this.b } and the same with b written first.
TwoVariables == <<Written(<<"a">>, ArgsA), Written(<<"b">>, ThisB)>>

TwoVariablesSwapped == <<Written(<<"b">>, ThisB), Written(<<"a">>, ArgsA)>>

InitExtract ==
    /\ \/ \E v \in ItemTexts : written = <<>> /\ input = v
       \/ \E x, y \in ItemTexts :
             /\ written = Elements(<<x, y>>)
             /\ input = RenderArray(written)
       \/ \E x, y \in ItemTexts :
             /\ written = Properties(<<x, y>>)
             /\ input = RenderObject(written)
       \/ /\ written \in {TwoVariables, TwoVariablesSwapped}
          /\ input = RenderObject(written)
    /\ pc = "start"
    /\ result = NoResult
    /\ orig = NoResult
    /\ edits = 0
    /\ paths = <<>>
    /\ NoTelemetry

\* A call of external_var_paths on the parsed literal.
Extract ==
    /\ pc = "parsed"
    /\ result.st = "Ok"
    /\ paths' = external_var_paths(result.node)
    /\ pc' = "extracted"
    /\ UNCHANGED <<input, written, result, orig, edits, inner, log, calls>>

NextExtract == Parse \/ Extract

SpecExtract == InitExtract /\ [][NextExtract]_vars

\* The places of the reporting Path leaves of a literal: each the sequence of
\* child indices that leads to the leaf.
RECURSIVE Addresses(_)
Addresses(node) ==
    CASE node.tag = "Path" ->
            IF PathSelection_external_var_paths(node) = <<>> THEN {} ELSE {<<>>}
      [] node.tag \in {"Object", "Array"} ->
            UNION {{<<i>> \o a : a \in Addresses(node.kids[i])} :
                      i \in 1..Len(node.kids)}
      [] OTHER -> {}

RECURSIVE NodeAt(_, _)
NodeAt(node, a) ==
    IF a = <<>> THEN node ELSE NodeAt(node.kids[a[1]], Tail(a))

\* a comes before b left to right, depth first.
RECURSIVE Before(_, _)
Before(a, b) ==
    /\ a # <<>>
    /\ b # <<>>
    /\ \/ a[1] < b[1]
       \/ a[1] = b[1] /\ Before(Tail(a), Tail(b))

\* C9: extraction returns nothing for String, Number, Bool and Null, and for
\* Object, Array and Path the reports of the Path leaves in left-to-right,
\* depth-first order (object values in entry order, array elements in index
\* order); the parsed literal is the same afterwards.
ExtractionIsDepthFirst ==
    pc = "extracted" =>
        /\ result = orig
        /\ result.node.tag \in {"String", "Number", "Bool", "Null"} => paths = <<>>
        /\ Len(paths) = Cardinality(Addresses(result.node))
        /\ \A a \in Addresses(result.node) :
              LET k == Cardinality({b \in Addresses(result.node) : Before(b, a)}) + 1
              IN  paths[k] = NodeAt(result.node, a)

ExtractionIsDepthFirstWitness ==
    /\ pc = "extracted"
    /\ input = <<"[", "{", "a", ":", "$", "a", ",", "b", ":", ".", "k", "}", ",",
                 "[", "$", "b", ".", "c", ",", "$", "a", "]", "]">>
    /\ Len(paths) = 3
    /\ paths[2].keys[1].name = <<"b">>

ArgsAPath ==
    Parsed("Path", <<>>,
           <<Segment("Var", <<"a", "r", "g", "s">>, None),
             Segment("Field", <<"a">>, None), EmptySegment>>, <<>>, None)

ThisBPath ==
    Parsed("Path", <<>>,
           <<Segment("Var", <<"t", "h", "i", "s">>, None),
             Segment("Field", <<"b">>, None), EmptySegment>>, <<>>, None)

StripAll(ps) == [k \in 1..Len(ps) |-> strip_loc(ps[k])]

\* C10 as stated: whichever of the properties a: $args.a and b: $this.b is
\* written first, extraction yields the $args.a path and then the $this.b
\* path.
TwoVariablesInFixedOrder ==
    (pc = "extracted" /\ written \in {TwoVariables, TwoVariablesSwapped}) =>
        StripAll(paths) = <<ArgsAPath, ThisBPath>>

\* C10: for the object literal with the properties a: $args.a and b: $this.b,
\* extraction yields exactly two path selections, the $args.a path and the
\* $this.b path, in the order in which the source writes their properties.
TwoVariablesInSourceOrder ==
    (pc = "extracted" /\ written \in {TwoVariables, TwoVariablesSwapped}) =>
        StripAll(paths) = (IF written = TwoVariables
                           THEN <<ArgsAPath, ThisBPath>>
                           ELSE <<ThisBPath, ArgsAPath>>)

TwoVariablesInSourceOrderWitness ==
    /\ pc = "extracted"
    /\ written = TwoVariablesSwapped
    /\ input = <<"{", "b", ":">> \o ThisB \o <<",", "a", ":">> \o ArgsA \o <<"}">>
    /\ StripAll(paths) = <<ThisBPath, ArgsAPath>>

-----------------------------------------------------------------------------
(* Equality of literals *)

RECURSIVE LitExpr_eq(_, _)

\* LitExpr_eq that compares the entries of objects place by place.
LitExpr_eq_Ordered(a, b) ==
    /\ a.tag = b.tag
    /\ a.text = b.text
    /\ a.keys = b.keys
    /\ Len(a.kids) = Len(b.kids)
    /\ \A i \in 1..Len(a.kids) : LitExpr_eq(a.kids[i], b.kids[i])

\* The derived equality of LitExpr: arrays are equal element by element,
\* objects when they have as many entries and every key of the one has an
\* equal value in the other, whatever the order of the entries.
LitExpr_eq(a, b) ==
    /\ a.tag = b.tag
    /\ IF a.tag = "Object"
       THEN /\ Len(a.keys) = Len(b.keys)
            /\ \A i \in 1..Len(a.keys) :
                  \E j \in 1..Len(b.keys) :
                      /\ SameKey(a.keys[i], b.keys[j])
                      /\ LitExpr_eq(a.kids[i], b.kids[j])
       ELSE /\ a.text = b.text
            /\ a.keys = b.keys
            /\ Len(a.kids) = Len(b.kids)
            /\ \A i \in 1..Len(a.kids) : LitExpr_eq(a.kids[i], b.kids[i])

\* The properties ws written in every order.
Reorderings(ws) ==
    {[i \in 1..Len(ws) |-> ws[f[i]]] : f \in Permutations(1..Len(ws))}

-----------------------------------------------------------------------------
(* The form of keys *)

IsQuotedText(text) == text[1] \in {"'", "\""}

\* The name a key text writes: the text itself, or what stands between its
\* quotes.
NameOfText(text) ==
    IF IsQuotedText(text) THEN SubSeq(text, 2, Len(text) - 1) ELSE text

FormOfText(text) == IF IsQuotedText(text) THEN "Quoted" ELSE "Field"

\* The entries of the parsed object that have the form and the name.
EntriesOf(form, name) ==
    {j \in 1..Len(result.node.keys) :
        result.node.keys[j].form = form /\ result.node.keys[j].name = name}

\* The last place where a key of the form and the name is written.
LastWritten(form, name) ==
    CHOOSE i \in 1..Len(written) :
        /\ FormOfText(written[i].key) = form
        /\ NameOfText(written[i].key) = name
        /\ \A k \in (i + 1)..Len(written) :
              ~(FormOfText(written[k].key) = form
                  /\ NameOfText(written[k].key) = name)

\* C12: a property written with an identifier has a Field key, one written
\* with a single- or double-quoted string a Quoted key of the same name; a
\* Field key and a Quoted key of one name are two keys of the object, each
\* with its own entry and its own value.
KeyFormIsRecorded ==
    (pc = "parsed" /\ WrittenAsObject) =>
        /\ Accepted(input, result)
        /\ \A i \in 1..Len(written) :
              /\ Cardinality(EntriesOf(FormOfText(written[i].key),
                                       NameOfText(written[i].key))) = 1
              /\ \A j \in EntriesOf(FormOfText(written[i].key),
                                    NameOfText(written[i].key)) :
                     strip_loc(result.node.kids[j])
                         = ValueNode(written[LastWritten(FormOfText(written[i].key),
                                                         NameOfText(written[i].key))].value)
        /\ \A j \in 1..Len(result.node.keys) :
              \E i \in 1..Len(written) :
                  /\ FormOfText(written[i].key) = result.node.keys[j].form
                  /\ NameOfText(written[i].key) = result.node.keys[j].name

KeyFormIsRecordedWitness ==
    /\ pc = "parsed"
    /\ input = <<"{", "a", ":", "1", ",", "'", "a", "'", ":", "2", ",",
                 "\"", "a", "\"", ":", ".", "a", "}">>
    /\ Len(result.node.keys) = 2
    /\ result.node.keys[1].form = "Field"
    /\ result.node.keys[2].form = "Quoted"
    /\ result.node.keys[1].name = result.node.keys[2].name
    /\ result.node.kids[1].text = <<"Int", "+", "1">>
    /\ result.node.kids[2].tag = "Path"

-----------------------------------------------------------------------------
(* Path selections written from a variable and a list of keys *)

MaxKeys == 3

PathVarTexts == {<<"$">>, <<"$", "a", "r", "g", "s">>, <<"$", "t", "h", "i", "s">>}

PathKeyTexts == {<<"a">>, <<"b", "c">>, <<"'", "d", "'">>, <<"n", "u", "l", "l", "s">>}

IsVarWritten(w) == w.value = <<"Var">>

\* The text of the segments ws: the variable as it is, a dot before every
\* key but a first key written without one; sp stands on both sides of every
\* dot and at both ends of the text.
RECURSIVE RenderSegments(_, _, _)
RenderSegments(ws, dotted, sp) ==
    IF ws = <<>> THEN <<>>
    ELSE (IF IsVarWritten(ws[1]) \/ ~dotted THEN <<>> ELSE sp \o <<".">> \o sp)
         \o ws[1].key
         \o RenderSegments(Tail(ws), TRUE, sp)

RenderPath(ws, dotted, sp) == sp \o RenderSegments(ws, dotted, sp) \o sp

KeysWritten(ks) == [i \in 1..Len(ks) |-> Written(ks[i], <<"Key">>)]

InitPath ==
    /\ \E ks \in SeqsUpTo(PathKeyTexts, MaxKeys), sp \in {<<>>, <<" ">>} :
          \/ \E v \in PathVarTexts :
                /\ written = <<Written(v, <<"Var">>)>> \o KeysWritten(ks)
                /\ input = RenderPath(written, TRUE, sp)
          \/ \E dotted \in BOOLEAN :
                /\ ks # <<>>
                /\ written = KeysWritten(ks)
                /\ input = RenderPath(written, dotted, sp)
    /\ pc = "start"
    /\ result = NoResult
    /\ orig = NoResult
    /\ edits = 0
    /\ paths = <<>>
    /\ NoTelemetry

NextPath == Parse

SpecPath == InitPath /\ [][NextPath]_vars

\* The whole text was read as a path selection.
ParsedAsPath ==
    pc = "parsed" /\ Accepted(input, result) /\ result.node.tag = "Path"

\* The segment that stands for what was written, without its location.
SegmentWritten(w) ==
    IF IsVarWritten(w) THEN Segment("Var", Tail(w.key), None)
    ELSE Segment(FormOfText(w.key), NameOfText(w.key), None)

\* C13: a path selection produced by the parser is a chain with exactly one
\* Empty terminator, at the tail, after the variable segment (when a
\* variable is written) and one key segment per key written, in source
\* order.
PathChainIsTerminated ==
    ParsedAsPath =>
        /\ Len(result.node.keys) = Len(written) + 1
        /\ result.node.keys[Len(written) + 1].form = "Empty"
        /\ \A i \in 1..Len(written) :
              /\ result.node.keys[i].form # "Empty"
              /\ StripKey(result.node.keys[i]) = SegmentWritten(written[i])

PathChainIsTerminatedWitness ==
    /\ ParsedAsPath
    /\ input = <<"$", "a", "r", "g", "s", ".", "a", ".", "'", "d", "'">>
    /\ Len(result.node.keys) = 4
    /\ result.node.keys[1].form = "Var"
    /\ result.node.keys[3].form = "Quoted"
    /\ result.node.keys[4].form = "Empty"

VarWritten == written # <<>> /\ IsVarWritten(written[1])

\* The text is a path of keys alone, written with the leading dot.
DottedKeys(sp) == ~VarWritten /\ input = RenderPath(written, TRUE, sp)

\* The path written without its leading dot is read to the same literal.
SameWithoutDot(sp) ==
    /\ Accepted(input, result)
    /\ Accepted(RenderPath(written, FALSE, sp),
                parse(RenderPath(written, FALSE, sp), 1))
    /\ strip_loc(parse(RenderPath(written, FALSE, sp), 1).node)
           = strip_loc(result.node)

\* The leading dot adds no segment: the chain is the keys written and Empty.
DotAddsNoSegment ==
    /\ Accepted(input, result)
    /\ result.node.tag = "Path"
    /\ Len(result.node.keys) = Len(written) + 1
    /\ \A i \in 1..Len(written) :
          StripKey(result.node.keys[i]) = SegmentWritten(written[i])

\* C14 as stated: a path of keys with the leading dot has the keys written
\* for its chain, and for any path of two or more keys the forms with and
\* without the leading dot are read to equal literals.
LeadingDotIsSugarForAllKeys ==
    pc = "parsed" =>
        \A sp \in {<<>>, <<" ">>} :
            DottedKeys(sp) =>
                /\ DotAddsNoSegment
                /\ Len(written) >= 2 => SameWithoutDot(sp)

\* The first key is an identifier that does not begin with a keyword.
FirstKeyIsPlainIdentifier ==
    /\ ~IsQuotedText(written[1].key)
    /\ \A kw \in {<<"t", "r", "u", "e">>, <<"f", "a", "l", "s", "e">>,
                  <<"n", "u", "l", "l">>} :
          ~StartsWith(written[1].key, 1, kw)

\* C14: a path of keys with the leading dot has the keys written for its
\* chain (.data is data, Empty), and for a path of two or more keys whose
\* first key is an identifier that does not begin with a keyword the forms
\* with and without the leading dot are read to equal literals.
LeadingDotIsSugar ==
    pc = "parsed" =>
        \A sp \in {<<>>, <<" ">>} :
            DottedKeys(sp) =>
                /\ DotAddsNoSegment
                /\ (Len(written) >= 2 /\ FirstKeyIsPlainIdentifier)
                       => SameWithoutDot(sp)

LeadingDotIsSugarWitness ==
    /\ pc = "parsed"
    /\ input = <<".", "b", "c", ".", "a">>
    /\ DottedKeys(<<>>)
    /\ SameWithoutDot(<<>>)
    /\ Len(result.node.keys) = 3
    /\ parse(<<"b", "c", ".", "a">>, 1).node.loc # result.node.loc

-----------------------------------------------------------------------------
(* Locations of literals *)

\* The first character at or after position i of s that is not ignorable, or
\* "" if there is none.
NextSignificant(s, i) ==
    IF spaces_or_comments(s, i) > Len(s) THEN "" ELSE s[spaces_or_comments(s, i)]

\* The characters lo+1..hi of s are the tokens of the literal: they begin
\* with its first token and end with its last.
TokensOf(s, node, lo, hi) ==
    CASE node.tag = "Object" -> s[lo + 1] = "{" /\ s[hi] = "}"
      [] node.tag = "Array"  -> s[lo + 1] = "[" /\ s[hi] = "]"
      [] node.tag = "Number" ->
            /\ s[lo + 1] \in DigitChars \cup {"-", "."}
            /\ s[hi] \in DigitChars \cup {"."}
            /\ s[lo + 1] # "-" => PrevSignificant(s, lo + 1) # "-"
            /\ IF s[hi] = "." THEN NextSignificant(s, hi + 1) \notin DigitChars
               ELSE hi = Len(s) \/ s[hi + 1] \notin DigitChars
            /\ (\A k \in (lo + 1)..hi : s[k] # ".")
                  => NextSignificant(s, hi + 1) # "."
            /\ s[lo + 1] \in DigitChars =>
                  (lo = 0 \/ s[lo] \notin DigitChars)
      [] node.tag = "Bool" ->
            SubSeq(s, lo + 1, hi) \in {<<"t", "r", "u", "e">>, <<"f", "a", "l", "s", "e">>}
      [] node.tag = "Null" -> SubSeq(s, lo + 1, hi) = <<"n", "u", "l", "l">>
      [] node.tag = "String" ->
            s[lo + 1] \in {"'", "\""} /\ s[hi] = s[lo + 1] /\ lo + 1 < hi
      [] node.tag = "Path" ->
            s[lo + 1] \in IdentChars \cup {"$", "'", "\""}
                /\ s[hi] \in IdentChars \cup {"$", "'", "\""}

\* The literal and every literal nested in it is located at its own tokens,
\* inside the range lo..hi.
RECURSIVE WellLocated(_, _, _, _)
WellLocated(s, node, lo, hi) ==
    /\ node.loc # None
    /\ lo <= node.loc[1]
    /\ node.loc[1] < node.loc[2]
    /\ node.loc[2] <= hi
    /\ TokensOf(s, node, node.loc[1], node.loc[2])
    /\ \A k \in 1..Len(node.kids) :
          WellLocated(s, node.kids[k], node.loc[1] + 1, node.loc[2] - 1)

-----------------------------------------------------------------------------
(* Merging of locations *)

MaxOffset == 3

\* The optional byte ranges within the first MaxOffset bytes.
ValidLocs ==
    {None} \cup {Some(r[1], r[2]) :
                    r \in {x \in (0..MaxOffset) \X (0..MaxOffset) : x[1] <= x[2]}}

InitMerge ==
    /\ input = <<>>
    /\ written \in [1..3 -> ValidLocs]
    /\ pc = "start"
    /\ result = NoResult
    /\ orig = NoResult
    /\ edits = 0
    /\ paths = <<>>
    /\ NoTelemetry

\* A call of merge_locs on the first two of the ranges.
MergeLocs ==
    /\ pc = "start"
    /\ result' = Ok(0, Parsed("Span", <<>>, <<>>, <<>>,
                              merge_locs(written[1], written[2])))
    /\ pc' = "merged"
    /\ UNCHANGED <<input, written, orig, edits, paths, inner, log, calls>>

NextMerge == MergeLocs

SpecMerge == InitMerge /\ [][NextMerge]_vars

\* The range r encloses the optional range a.
Encloses(r, a) == a = None \/ (r # None /\ r[1] <= a[1] /\ a[2] <= r[2])

\* C16: merge_locs returns None exactly when both ranges are None, the
\* present range when only one is present, and otherwise the least start and
\* the greatest end, the smallest range enclosing both; it is commutative,
\* idempotent and associative.
MergeIsSmallestEnclosing ==
    pc = "merged" =>
        LET a == written[1]
            b == written[2]
            c == written[3]
            m == result.node.loc
        IN  /\ (m = None) <=> (a = None /\ b = None)
            /\ (a # None /\ b = None) => m = a
            /\ (a = None /\ b # None) => m = b
            /\ (a # None /\ b # None) =>
                  /\ m[1] = Min(a[1], b[1])
                  /\ m[2] = Max(a[2], b[2])
            /\ Encloses(m, a) /\ Encloses(m, b)
            /\ \A r \in ValidLocs : (Encloses(r, a) /\ Encloses(r, b)) => Encloses(r, m)
            /\ m = merge_locs(b, a)
            /\ merge_locs(a, a) = a
            /\ merge_locs(m, c) = merge_locs(a, merge_locs(b, c))

MergeIsSmallestEnclosingWitness ==
    /\ pc = "merged"
    /\ written[1] = Some(2, 3)
    /\ written[2] = Some(0, 1)
    /\ written[3] = None
    /\ result.node.loc = Some(0, 3)

-----------------------------------------------------------------------------
(* The unconsumed remainder *)

\* The first k characters of the text are a literal, read whole.
PrefixIsLiteral(k) ==
    Accepted(SubSeq(input, 1, k), parse(SubSeq(input, 1, k), 1))

-----------------------------------------------------------------------------
(* Keywords at the start of an identifier *)

\* The text begins, after any whitespace and comments, with a keyword that
\* an identifier character follows directly.
KeywordBeginsIdentifier ==
    \E kw \in Keywords :
        /\ StartsWith(input, spaces_or_comments(input, 1), kw)
        /\ spaces_or_comments(input, 1) + Len(kw) <= Len(input)
        /\ input[spaces_or_comments(input, 1) + Len(kw)] \in IdentChars

\* C18: true, false and null are recognised only as whole tokens: for a text
\* that begins with an identifier that merely begins with a keyword,
\* LitExpr::parse does not return Bool or Null with the rest of the
\* identifier left over; the text is handled by the path alternative.
KeywordsAreWholeTokens ==
    (pc = "parsed" /\ KeywordBeginsIdentifier) =>
        /\ result.node.tag \notin {"Bool", "Null"}
        /\ result.st = "Ok" => result.node.tag = "Path"

-----------------------------------------------------------------------------
(* Custom telemetry events *)

MaxCalls == 3

EventLevel == {"Info", "Warn", "Error", "Off"}

EventOn == {"Request", "Response", "Error"}

\* What Condition::evaluate_request returns.
OptionBool == {"Some(true)", "Some(false)", "None"}

\* CustomEventInner as Events::new_router_events builds it: no attributes
\* yet; selectors tells whether attribute selectors are configured.
InitEvent ==
    /\ \E level \in EventLevel, on \in EventOn, selectors \in BOOLEAN :
          inner = [name |-> "my.event", level |-> level, event_on |-> on,
                   message |-> "my message", selectors |-> selectors,
                   attributes |-> <<>>]
    /\ log = <<>>
    /\ calls = <<>>
    /\ pc = "event"
    /\ input = <<>>
    /\ written = <<>>
    /\ result = NoResult
    /\ orig = NoResult
    /\ edits = 0
    /\ paths = <<>>

\* The attributes the selectors give for the n-th call's request, response
\* or error.
Selected(from, n) == <<[key |-> from, value |-> n]>>

\* The attribute list collected into a map of strings: a later attribute of
\* a key replaces an earlier one.
HashMapOf(attributes) ==
    [k \in {attributes[i].key : i \in DOMAIN attributes} |->
        ToString(attributes[CHOOSE i \in DOMAIN attributes :
                                /\ attributes[i].key = k
                                /\ \A j \in DOMAIN attributes :
                                      attributes[j].key = k => j <= i].value)]

\* log_event: the log after an event of the level is logged; nothing is
\* logged at level Off.
log_event(lg, level, kind, attributes, message) ==
    IF level = "Off" THEN lg
    ELSE Append(lg, [level |-> level, kind |-> kind,
                     attributes |-> attributes, message |-> message])

\* CustomEventInner::send_event
send_event(in, lg) ==
    log_event(lg, in.level, in.name, HashMapOf(in.attributes), in.message)

\* One callback that ran: the results of the evaluations of the condition it
\* made, whether the condition holds of its argument (for on_error, which
\* evaluates nothing), and whether it ran send_event.
Call(callback, evaluated, holds, sent) ==
    [callback |-> callback, evaluated |-> evaluated, holds |-> holds,
     sent |-> sent]

\* on_request that appends the selected attributes to the stored list.
on_request_Appends ==
    /\ pc = "event"
    /\ Len(calls) < MaxCalls
    /\ \E first \in OptionBool :
          IF first # "Some(true)" /\ inner.event_on = "Request"
          THEN /\ calls' = Append(calls, Call("on_request", <<first>>,
                                              first = "Some(true)", FALSE))
               /\ UNCHANGED <<inner, log>>
          ELSE /\ inner' = [inner EXCEPT !.attributes =
                               IF inner.selectors
                               THEN @ \o Selected("request", Len(calls) + 1)
                               ELSE @]
               /\ IF inner.event_on = "Request"
                  THEN \E second \in OptionBool :
                          /\ log' = IF second # "Some(false)"
                                    THEN send_event(inner', log) ELSE log
                          /\ calls' = Append(calls,
                                 Call("on_request", <<first, second>>,
                                      first = "Some(true)",
                                      second # "Some(false)"))
                  ELSE /\ log' = log
                       /\ calls' = Append(calls,
                              Call("on_request", <<first>>,
                                   first = "Some(true)", FALSE))
    /\ UNCHANGED <<input, written, pc, result, orig, edits, paths>>

\* CustomEvent::on_request
on_request ==
    /\ pc = "event"
    /\ Len(calls) < MaxCalls
    /\ \E first \in OptionBool :
          IF first # "Some(true)" /\ inner.event_on = "Request"
          THEN /\ calls' = Append(calls, Call("on_request", <<first>>,
                                              first = "Some(true)", FALSE))
               /\ UNCHANGED <<inner, log>>
          ELSE /\ inner' = [inner EXCEPT !.attributes =
                               IF inner.selectors
                               THEN Selected("request", Len(calls) + 1)
                               ELSE @]
               /\ IF inner.event_on = "Request"
                  THEN \E second \in OptionBool :
                          /\ log' = IF second # "Some(false)"
                                    THEN send_event(inner', log) ELSE log
                          /\ calls' = Append(calls,
                                 Call("on_request", <<first, second>>,
                                      first = "Some(true)",
                                      second # "Some(false)"))
                  ELSE /\ log' = log
                       /\ calls' = Append(calls,
                              Call("on_request", <<first>>,
                                   first = "Some(true)", FALSE))
    /\ UNCHANGED <<input, written, pc, result, orig, edits, paths>>

\* on_response that does not look at event_on.
on_response_AnyTrigger ==
    /\ pc = "event"
    /\ Len(calls) < MaxCalls
    /\ \E holds \in BOOLEAN :
          IF ~holds
          THEN /\ calls' = Append(calls, Call("on_response", <<holds>>, holds, FALSE))
               /\ UNCHANGED <<inner, log>>
          ELSE /\ inner' = [inner EXCEPT !.attributes =
                               IF inner.selectors
                               THEN @ \o Selected("response", Len(calls) + 1)
                               ELSE @]
               /\ log' = send_event(inner', log)
               /\ calls' = Append(calls, Call("on_response", <<holds>>, holds, TRUE))
    /\ UNCHANGED <<input, written, pc, result, orig, edits, paths>>

\* CustomEvent::on_response
on_response ==
    /\ pc = "event"
    /\ Len(calls) < MaxCalls
    /\ IF inner.event_on # "Response"
       THEN /\ calls' = Append(calls, Call("on_response", <<>>, TRUE, FALSE))
            /\ UNCHANGED <<inner, log>>
       ELSE \E holds \in BOOLEAN :
               IF ~holds
               THEN /\ calls' = Append(calls,
                           Call("on_response", <<holds>>, holds, FALSE))
                    /\ UNCHANGED <<inner, log>>
               ELSE /\ inner' = [inner EXCEPT !.attributes =
                                    IF inner.selectors
                                    THEN @ \o Selected("response", Len(calls) + 1)
                                    ELSE @]
                    /\ log' = send_event(inner', log)
                    /\ calls' = Append(calls,
                           Call("on_response", <<holds>>, holds, TRUE))
    /\ UNCHANGED <<input, written, pc, result, orig, edits, paths>>

\* CustomEvent::on_error.  The condition is not evaluated; holds is whether
\* the configured condition holds of the error.
on_error ==
    /\ pc = "event"
    /\ Len(calls) < MaxCalls
    /\ \E holds \in BOOLEAN :
          IF inner.event_on # "Error"
          THEN /\ calls' = Append(calls, Call("on_error", <<>>, holds, FALSE))
               /\ UNCHANGED <<inner, log>>
          ELSE /\ inner' = [inner EXCEPT !.attributes =
                               IF inner.selectors
                               THEN @ \o Selected("error", Len(calls) + 1)
                               ELSE @]
               /\ log' = send_event(inner', log)
               /\ calls' = Append(calls, Call("on_error", <<>>, holds, TRUE))
    /\ UNCHANGED <<input, written, pc, result, orig, edits, paths>>

NextEvent == on_request \/ on_response \/ on_error

SpecEvent == InitEvent /\ [][NextEvent]_vars

\* The callbacks so far are the beginning of one request lifecycle:
\* on_request, then one on_response or one on_error.
OneLifecycle ==
    /\ Len(calls) <= 2
    /\ Len(calls) >= 1 => calls[1].callback = "on_request"
    /\ Len(calls) >= 2 => calls[2].callback \in {"on_response", "on_error"}

\* The trigger that names the callback.
TriggerOf(callback) ==
    CASE callback = "on_request" -> "Request"
      [] callback = "on_response" -> "Response"
      [] callback = "on_error" -> "Error"

\* C19: over one request lifecycle (on_request, then one on_response or one
\* on_error) send_event runs only in the callback that event_on names, so it
\* runs, and an event is logged, at most once.
EventSentOnlyWhereNamed ==
    OneLifecycle =>
        /\ \A i \in 1..Len(calls) :
              calls[i].sent => inner.event_on = TriggerOf(calls[i].callback)
        /\ Cardinality({i \in 1..Len(calls) : calls[i].sent}) <= 1
        /\ Len(log) <= Cardinality({i \in 1..Len(calls) : calls[i].sent})
        /\ inner.level # "Off" =>
              Len(log) = Cardinality({i \in 1..Len(calls) : calls[i].sent})

EventSentOnlyWhereNamedWitness ==
    /\ OneLifecycle
    /\ Len(calls) = 2
    /\ inner.event_on = "Response"
    /\ ~calls[1].sent
    /\ calls[2].callback = "on_response"
    /\ calls[2].sent
    /\ Len(log) = 1

\* C20: an event whose condition is not satisfied is never logged, whichever
\* trigger is configured: on_request sends only when evaluate_request
\* returned Some(true), on_response only when evaluate_response returned
\* true, on_error only when the condition holds of the error.
ConditionGatesEveryTrigger ==
    \A i \in 1..Len(calls) :
        calls[i].sent /\ inner.level # "Off" => calls[i].holds

-----------------------------------------------------------------------------
(* The attributes of a custom event *)

RECURSIVE AppendedSince(_, _)

\* The attributes the sending calls after the r-th call appended, up to the
\* k-th call.
AppendedSince(r, k) ==
    IF k <= r THEN <<>>
    ELSE AppendedSince(r, k - 1) \o
         (IF calls[k].sent
          THEN Selected(IF calls[k].callback = "on_response"
                        THEN "response" ELSE "error", k)
          ELSE <<>>)

\* The last on_request so far, 0 if there was none.
LastRequest ==
    LET requests == {i \in 1..Len(calls) : calls[i].callback = "on_request"}
    IN  IF requests = {} THEN 0
        ELSE CHOOSE i \in requests : \A j \in requests : j <= i

\* A response- or error-triggered event with attribute selectors.
LateTriggerWithSelectors ==
    /\ pc = "event"
    /\ inner.event_on \in {"Response", "Error"}
    /\ inner.selectors

\* The last call sent the event and it was logged.
LastCallLogged ==
    /\ calls # <<>>
    /\ calls[Len(calls)].sent
    /\ inner.level # "Off"
    /\ log # <<>>

\* C21 as stated: for a response- or error-triggered event with attribute
\* selectors, the attributes logged are the stored attribute list, the
\* request-selected attributes followed by every response- or error-selected
\* attribute appended since, so that a second on_response logs the
\* response-selected attributes twice.
LoggedAttributesAreTheStoredList ==
    LateTriggerWithSelectors /\ LastCallLogged =>
        LET logged == log[Len(log)].attributes
        IN  /\ Cardinality(DOMAIN logged) = Len(inner.attributes)
            /\ \A i \in DOMAIN inner.attributes :
                  /\ inner.attributes[i].key \in DOMAIN logged
                  /\ logged[inner.attributes[i].key] =
                         ToString(inner.attributes[i].value)

\* C21: for a response- or error-triggered event with attribute selectors,
\* the stored attribute list is the attributes selected by the last
\* on_request (none before the first) followed by the attributes each
\* sending on_response or on_error appended since, so nothing of an earlier
\* on_request remains and a second on_response stores the response-selected
\* attributes twice; the attributes logged are the map of that list, with
\* one entry for each key, that of the latest call.
StoredListAndLoggedMap ==
    LateTriggerWithSelectors =>
        /\ inner.attributes =
               (IF LastRequest = 0 THEN <<>>
                ELSE Selected("request", LastRequest))
               \o AppendedSince(LastRequest, Len(calls))
        /\ LastCallLogged =>
              LET logged == log[Len(log)].attributes
                  late == IF inner.event_on = "Response"
                          THEN "response" ELSE "error"
              IN  /\ DOMAIN logged =
                         (IF LastRequest = 0 THEN {} ELSE {"request"})
                         \cup {late}
                  /\ LastRequest # 0 =>
                         logged["request"] = ToString(LastRequest)
                  /\ logged[late] = ToString(Len(calls))

StoredListAndLoggedMapWitness ==
    /\ LateTriggerWithSelectors
    /\ LastCallLogged
    /\ Len(calls) = 3
    /\ calls[1].callback = "on_request"
    /\ calls[2].callback = "on_response" /\ calls[2].sent
    /\ calls[3].callback = "on_response"
    /\ Len(inner.attributes) = 3
    /\ Cardinality(DOMAIN log[Len(log)].attributes) = 2
    /\ Len(log) = 2

====
